---- MODULE Spec2Model ----
(***************************************************************************)
(* autograde_metrics.py: scores a predictions file against the labels      *)
(* obtained by joining purchase orders with deliveries.  The script is one *)
(* straight-line run; every statement of it is one action below, and the   *)
(* three CSV files (and the command line) are the inputs chosen in Init.   *)
(*                                                                         *)
(* Representation.  A table is a sequence of records, one per row, in file *)
(* order.  A missing cell (pandas NaN) is NULL.  p_late is counted in      *)
(* tenths (5 is 0.5).  A metric is an exact fraction <<num, den>> in       *)
(* lowest terms; NaN is <<0, 0>>.  The date columns take no part in any    *)
(* computation; they matter only in that read_csv fails when one is absent.  *)
(***************************************************************************)
EXTENDS Integers, Sequences, FiniteSets

\* ------------------------------------------------------------------ bounds
MaxPO == 2
MaxDeliv == 2
MaxPred == 2
MaxId == 2
ScoreSpread == 1
MaxBig == 11

\* --------------------------------------------------------------- constants
\* NaN, the value pandas gives a cell with no content
NULL == -1
\* thr = 0.5, in tenths
thr == 5

Ids == 1..MaxId
Flags == {0, 1, NULL}
Scores == (thr - ScoreSpread)..(thr + ScoreSpread)

\* ----------------------------------------------------------------- helpers
Max(a, b) == IF a >= b THEN a ELSE b

RECURSIVE Gcd(_, _)
Gcd(a, b) == IF b = 0 THEN a ELSE Gcd(b, a % b)

\* float(nan)
NaN == <<0, 0>>
\* the value of a metric variable before its statement has run
NotComputed == <<NULL, NULL>>

Frac(n, d) == IF d = 0 THEN NaN ELSE LET g == Gcd(n, d) IN <<n \div g, d \div g>>

FracAdd(x, y) ==
    LET g == Gcd(x[2], y[2])
        den == (x[2] \div g) * y[2]
    IN Frac(x[1] * (den \div x[2]) + y[1] * (den \div y[2]), den)

SeqsUpTo(S, n) == UNION {[1..len -> S] : len \in 0..n}

\* ------------------------------------------------------- pandas operations
\* rows of right whose key equals the key of l, in right's order
Matching(l, right) == SelectSeq(right, LAMBDA r : r.order_id = l.order_id)

\* po.merge(deliv, on='order_id', how='left')
LeftRowsDropUnmatched(l, right) ==
    LET ms == Matching(l, right)
    IN [j \in 1..Len(ms) |->
          [order_id |-> l.order_id, cancelled |-> l.cancelled,
           late_delivery |-> ms[j].late_delivery]]

LeftRows(l, right) ==
    LET ms == Matching(l, right)
    IN IF ms = <<>>
       THEN <<[order_id |-> l.order_id, cancelled |-> l.cancelled,
               late_delivery |-> NULL]>>
       ELSE [j \in 1..Len(ms) |->
               [order_id |-> l.order_id, cancelled |-> l.cancelled,
                late_delivery |-> ms[j].late_delivery]]

MergeLeft(left, right) ==
    LET Upto[i \in 0..Len(left)] ==
            IF i = 0 THEN <<>> ELSE Upto[i - 1] \o LeftRows(left[i], right)
    IN Upto[Len(left)]

\* df.query('cancelled == 0'): NaN == 0 is False
KeepNotOne(r) == r.cancelled # 1

QueryKeeps(r) == r.cancelled = 0

Query(d) == SelectSeq(d, QueryKeeps)

\* df['late_delivery'].fillna(0).astype(int)
NoFill(v) == v

FillNa(v) == IF v = NULL THEN 0 ELSE v

FillLabel(d) ==
    [i \in 1..Len(d) |-> [d[i] EXCEPT !.late_delivery = FillNa(d[i].late_delivery)]]

\* set(['order_id','p_late']).issubset(pred.columns)
OnlyOrderIdRequired(cols) == "order_id" \in cols

RequiredColumns(cols) == {"order_id", "p_late"} \subseteq cols

\* df.merge(pred, on='order_id', how='inner')
InnerRowsKeepUnmatched(l, right) ==
    LET ms == Matching(l, right)
    IN IF ms = <<>>
       THEN <<[order_id |-> l.order_id, cancelled |-> l.cancelled,
               late_delivery |-> l.late_delivery, p_late |-> NULL]>>
       ELSE [j \in 1..Len(ms) |->
               [order_id |-> l.order_id, cancelled |-> l.cancelled,
                late_delivery |-> l.late_delivery, p_late |-> ms[j].p_late]]

InnerRowsFirstMatch(l, right) ==
    LET ms == Matching(l, right)
    IN IF ms = <<>> THEN <<>>
       ELSE <<[order_id |-> l.order_id, cancelled |-> l.cancelled,
               late_delivery |-> l.late_delivery, p_late |-> ms[1].p_late]>>

InnerRows(l, right) ==
    LET ms == Matching(l, right)
    IN [j \in 1..Len(ms) |->
          [order_id |-> l.order_id, cancelled |-> l.cancelled,
           late_delivery |-> l.late_delivery, p_late |-> ms[j].p_late]]

MergeInner(left, right) ==
    LET Upto[i \in 0..Len(left)] ==
            IF i = 0 THEN <<>> ELSE Upto[i - 1] \o InnerRows(left[i], right)
    IN Upto[Len(left)]

\* ------------------------------------------------------ sklearn operations
Positives(t) == Cardinality({i \in 1..Len(t) : t[i].late_delivery = 1})
Negatives(t) == Cardinality({i \in 1..Len(t) : t[i].late_delivery # 1})
HasNaNScore(t) == \E i \in 1..Len(t) : t[i].p_late = NULL
ScoreValues(t) == {t[i].p_late : i \in 1..Len(t)}

\* Series.min(): NaN for an empty series
SeqMax(s) ==
    IF s = <<>> THEN NULL ELSE CHOOSE v \in {s[i] : i \in 1..Len(s)} :
                                   \A i \in 1..Len(s) : s[i] <= v

SeqMin(s) ==
    IF s = <<>> THEN NULL ELSE CHOOSE v \in {s[i] : i \in 1..Len(s)} :
                                   \A i \in 1..Len(s) : v <= s[i]

\* average_precision_score raises on an empty input (the curve indexes the
\* last threshold) and on a NaN score (assert_all_finite)
NeverRaises(t) == FALSE

RaisesWithoutPositives(t) == Len(t) = 0 \/ HasNaNScore(t) \/ Positives(t) = 0

AveragePrecisionRaises(t) == Len(t) = 0 \/ HasNaNScore(t)

\* sum over the distinct thresholds, descending, of
\* (recall_n - recall_{n-1}) * precision_n; 0.0 when there is no positive
AveragePrecision(t) ==
    LET P == Positives(t)
        TPat(v) == Cardinality({i \in 1..Len(t) : t[i].late_delivery = 1 /\ t[i].p_late >= v})
        TPabove(v) == Cardinality({i \in 1..Len(t) : t[i].late_delivery = 1 /\ t[i].p_late > v})
        At(v) == Cardinality({i \in 1..Len(t) : t[i].p_late >= v})
        Term(v) == Frac((TPat(v) - TPabove(v)) * TPat(v), At(v) * P)
        lo == SeqMin([i \in 1..Len(t) |-> t[i].p_late])
        hi == SeqMax([i \in 1..Len(t) |-> t[i].p_late])
        Sum[v \in (lo - 1)..hi] ==
            IF v = lo - 1 THEN <<0, 1>>
            ELSE IF v \in ScoreValues(t) THEN FracAdd(Sum[v - 1], Term(v))
            ELSE Sum[v - 1]
    IN IF P = 0 THEN <<0, 1>> ELSE Sum[hi]

\* roc_auc_score is not defined when y_true holds one class only
RocAucUndefined(t) == Positives(t) = 0 \/ Negatives(t) = 0

\* what roc_auc_score does with one class: older scikit-learn releases raise
\* ValueError, newer ones warn (UndefinedMetricWarning) and return NaN; the
\* script pins no release
OneClassOutcomes == {"raise", "nan"}

\* probability that a positive outranks a negative, ties counted one half
RocAuc(t) ==
    LET I == 1..Len(t)
        Pairs == {p \in I \X I : t[p[1]].late_delivery = 1 /\ t[p[2]].late_delivery # 1}
        Wins == Cardinality({p \in Pairs : t[p[1]].p_late > t[p[2]].p_late})
        Ties == Cardinality({p \in Pairs : t[p[1]].p_late = t[p[2]].p_late})
    IN IF RocAucUndefined(t) THEN NaN
       ELSE Frac(2 * Wins + Ties, 2 * Positives(t) * Negatives(t))

\* (m['p_late'] >= threshold).astype(int)
Flagged(score, threshold) == score >= threshold

\* f1_score(y_true, y_pred): 2TP / (2TP + FP + FN), 0.0 when that is 0/0
F1Score(t, threshold) ==
    LET TP == Cardinality({i \in 1..Len(t) : t[i].late_delivery = 1 /\ Flagged(t[i].p_late, threshold)})
        FP == Cardinality({i \in 1..Len(t) : t[i].late_delivery # 1 /\ Flagged(t[i].p_late, threshold)})
        FN == Cardinality({i \in 1..Len(t) : t[i].late_delivery = 1 /\ ~Flagged(t[i].p_late, threshold)})
    IN IF 2 * TP + FP + FN = 0 THEN <<0, 1>> ELSE Frac(2 * TP, 2 * TP + FP + FN)

\* k = max(1, int(0.2 * len(m)))
AlwaysOne(n) == 1

TopK(n) == Max(1, (2 * n) \div 10)

\* Series.nlargest(n): NaN dropped, then the n largest, largest first
RemoveAt(s, i) == [j \in 1..(Len(s) - 1) |-> IF j < i THEN s[j] ELSE s[j + 1]]

RECURSIVE NLargest(_, _)
NLargest(s, n) ==
    IF n = 0 \/ s = <<>> THEN <<>>
    ELSE LET i == CHOOSE a \in 1..Len(s) :
                     /\ \A b \in 1..Len(s) : s[b] <= s[a]
                     /\ \A b \in 1..(a - 1) : s[b] < s[a]
         IN <<s[i]>> \o NLargest(RemoveAt(s, i), n - 1)

\* m['p_late'].nlargest(k).min()
ThrTop20(t, n) ==
    LET col == [i \in 1..Len(t) |-> t[i].p_late]
    IN SeqMin(NLargest(SelectSeq(col, LAMBDA v : v # NULL), n))

\* ------------------------------------------------------------------ state
VARIABLES
    input,        \* the command line and the three files, fixed for the run
    pc,           \* the statement to run next, or "done" / "failed"
    po, deliv, df, pred, m,
    pr_auc, roc_auc, f1_default, k, thr_top20, f1_top20,
    stdout,       \* the lines printed so far, by kind
    printed,      \* what those lines show
    err,          \* the exception that ended the run, and where it was raised
    exit_code

vars == <<input, pc, po, deliv, df, pred, m, pr_auc, roc_auc, f1_default, k,
          thr_top20, f1_top20, stdout, printed, err, exit_code>>

frame == <<po, deliv, df, pred, m>>
metrics == <<pr_auc, roc_auc, f1_default, k, thr_top20, f1_top20>>
output == <<stdout, printed>>

\* ----------------------------------------------------------------- inputs
PORows == [order_id : Ids, cancelled : Flags]
DelivRows == [order_id : Ids, late_delivery : Flags]
PredRows == [order_id : Ids, p_late : Scores \cup {NULL}]
FileStatus == {"ok", "missing", "malformed", "no_date_column"}
PredStatus == {"ok", "missing", "malformed"}
PredColumns == SUBSET {"order_id", "p_late", "model"}

\* every table of at most MaxPO, MaxDeliv, MaxPred rows, keys repeated or not
InputsSmall ==
    [args_ok : {TRUE}, po_status : {"ok"}, labels_status : {"ok"},
     pred_status : {"ok"}, pred_cols : {{"order_id", "p_late"}},
     po_rows : SeqsUpTo(PORows, MaxPO),
     labels_rows : SeqsUpTo(DelivRows, MaxDeliv),
     pred_rows : SeqsUpTo(PredRows, MaxPred)]

\* up to MaxBig orders, each delivered and predicted once: the scores fall
\* from thr + ScoreSpread over thr to thr - ScoreSpread, split after a and b
\* rows; the late orders are the first j, the last j, or every second one
BigLabels(n) ==
    {[i \in 1..n |-> IF i <= j THEN 1 ELSE 0] : j \in 0..n}
        \cup {[i \in 1..n |-> IF i > j THEN 1 ELSE 0] : j \in 0..n}
        \cup {[i \in 1..n |-> i % 2]}

BigScores(n) ==
    {[i \in 1..n |-> IF i <= ab[1] THEN thr + ScoreSpread
                     ELSE IF i <= ab[2] THEN thr ELSE thr - ScoreSpread] :
        ab \in {x \in (0..n) \X (0..n) : x[1] <= x[2]}}

InputsBig ==
    UNION {
      {[args_ok |-> TRUE, po_status |-> "ok", labels_status |-> "ok",
        pred_status |-> "ok", pred_cols |-> {"order_id", "p_late", "model"},
        po_rows |-> [i \in 1..n |-> [order_id |-> i, cancelled |-> 0]],
        labels_rows |-> [i \in 1..n |-> [order_id |-> i, late_delivery |-> y[i]]],
        pred_rows |-> [i \in 1..n |-> [order_id |-> i, p_late |-> s[i]]]] :
         y \in BigLabels(n), s \in BigScores(n)} : n \in 3..MaxBig}

\* a command line or a file the run cannot use, around one order that would
\* otherwise be scored
InputsBroken ==
    {x \in [args_ok : BOOLEAN, po_status : FileStatus, labels_status : FileStatus,
            pred_status : PredStatus, pred_cols : PredColumns,
            po_rows : {<<[order_id |-> 1, cancelled |-> 0]>>},
            labels_rows : {<<[order_id |-> 1, late_delivery |-> 1]>>},
            pred_rows : {<<[order_id |-> 1, p_late |-> thr]>>}] :
        \/ ~x.args_ok
        \/ x.po_status # "ok" \/ x.labels_status # "ok" \/ x.pred_status # "ok"
        \/ ~({"order_id", "p_late"} \subseteq x.pred_cols)}

\* read_csv gives a column the file lacks to no row
ReadPredRows(rows, cols) ==
    [i \in 1..Len(rows) |->
        [order_id |-> IF "order_id" \in cols THEN rows[i].order_id ELSE NULL,
         p_late |-> IF "p_late" \in cols THEN rows[i].p_late ELSE NULL]]

Init ==
    /\ input \in InputsSmall \cup InputsBig \cup InputsBroken
    /\ pc = "parse_args"
    /\ po = <<>> /\ deliv = <<>> /\ df = <<>> /\ pred = <<>> /\ m = <<>>
    /\ pr_auc = NotComputed /\ roc_auc = NotComputed
    /\ f1_default = NotComputed /\ f1_top20 = NotComputed
    /\ k = NULL /\ thr_top20 = NULL
    /\ stdout = <<>>
    /\ printed = [rows |-> NULL, PR_AUC |-> NotComputed, ROC_AUC |-> NotComputed,
                  F1_default |-> NotComputed, F1_top20 |-> NotComputed]
    /\ err = [type |-> "none", at |-> "none"]
    /\ exit_code = NULL

\* an uncaught exception: traceback on stderr, exit status 1 (2 from argparse)
Raise(type, code) ==
    /\ pc' = "failed"
    /\ err' = [type |-> type, at |-> pc]
    /\ exit_code' = code

Goto(next) == pc' = next /\ UNCHANGED <<err, exit_code>>

\* ---------------------------------------------------------------- actions
\* args = parser.parse_args(): the three flags are required
ParseArgs ==
    /\ pc = "parse_args"
    /\ IF input.args_ok THEN Goto("read_po") ELSE Raise("SystemExit", 2)
    /\ UNCHANGED <<input, frame, metrics, output>>

ReadFails(status) ==
    CASE status = "missing" -> Raise("FileNotFoundError", 1)
      [] status = "malformed" -> Raise("ParserError", 1)
      [] status = "no_date_column" -> Raise("ValueError", 1)

\* po = pd.read_csv(args.po, parse_dates=['order_date','promised_date'])
ReadPO ==
    /\ pc = "read_po"
    /\ IF input.po_status = "ok"
       THEN po' = input.po_rows /\ Goto("read_deliv")
       ELSE ReadFails(input.po_status) /\ UNCHANGED po
    /\ UNCHANGED <<input, deliv, df, pred, m, metrics, output>>

\* deliv = pd.read_csv(args.labels, parse_dates=['actual_delivery_date'])
ReadDeliv ==
    /\ pc = "read_deliv"
    /\ IF input.labels_status = "ok"
       THEN deliv' = input.labels_rows /\ Goto("merge_left")
       ELSE ReadFails(input.labels_status) /\ UNCHANGED deliv
    /\ UNCHANGED <<input, po, df, pred, m, metrics, output>>

\* df = po.merge(deliv, on='order_id', how='left')
LeftMerge ==
    /\ pc = "merge_left"
    /\ df' = MergeLeft(po, deliv)
    /\ Goto("query")
    /\ UNCHANGED <<input, po, deliv, pred, m, metrics, output>>

\* df = df.query('cancelled == 0').copy()
QueryCancelled ==
    /\ pc = "query"
    /\ df' = Query(df)
    /\ Goto("fillna")
    /\ UNCHANGED <<input, po, deliv, pred, m, metrics, output>>

\* df['late_delivery'] = df['late_delivery'].fillna(0).astype(int)
FillLateDelivery ==
    /\ pc = "fillna"
    /\ df' = FillLabel(df)
    /\ Goto("read_pred")
    /\ UNCHANGED <<input, po, deliv, pred, m, metrics, output>>

\* pred = pd.read_csv(args.predictions)
ReadPred ==
    /\ pc = "read_pred"
    /\ IF input.pred_status = "ok"
       THEN pred' = ReadPredRows(input.pred_rows, input.pred_cols) /\ Goto("assert")
       ELSE ReadFails(input.pred_status) /\ UNCHANGED pred
    /\ UNCHANGED <<input, po, deliv, df, m, metrics, output>>

\* assert set(['order_id','p_late']).issubset(pred.columns)
AssertColumns ==
    /\ pc = "assert"
    /\ IF RequiredColumns(input.pred_cols)
       THEN Goto("merge_inner") ELSE Raise("AssertionError", 1)
    /\ UNCHANGED <<input, frame, metrics, output>>

\* m = df.merge(pred, on='order_id', how='inner')
InnerMerge ==
    /\ pc = "merge_inner"
    /\ m' = MergeInner(df, pred)
    /\ Goto("print_rows")
    /\ UNCHANGED <<input, po, deliv, df, pred, metrics, output>>

\* print(f"Merged rows: {len(m)}")
PrintRowsNothing ==
    /\ pc = "print_rows"
    /\ Goto("pr_auc")
    /\ UNCHANGED <<input, frame, metrics, output>>

PrintRows ==
    /\ pc = "print_rows"
    /\ stdout' = Append(stdout, "Merged rows")
    /\ printed' = [printed EXCEPT !.rows = Len(m)]
    /\ Goto("pr_auc")
    /\ UNCHANGED <<input, frame, metrics>>

\* pr_auc = average_precision_score(m['late_delivery'], m['p_late'])
PrAuc ==
    /\ pc = "pr_auc"
    /\ IF AveragePrecisionRaises(m)
       THEN Raise(IF Len(m) = 0 THEN "IndexError" ELSE "ValueError", 1)
            /\ UNCHANGED pr_auc
       ELSE pr_auc' = AveragePrecision(m) /\ Goto("roc_auc")
    /\ UNCHANGED <<input, frame, roc_auc, f1_default, k, thr_top20, f1_top20, output>>

\* roc_auc = roc_auc_score(m['late_delivery'], m['p_late'])
RocAucStep ==
    /\ pc = "roc_auc"
    /\ IF RocAucUndefined(m)
       THEN \E outcome \in OneClassOutcomes :
               IF outcome = "raise"
               THEN Raise("ValueError", 1) /\ UNCHANGED roc_auc
               ELSE roc_auc' = NaN /\ Goto("f1_default")
       ELSE roc_auc' = RocAuc(m) /\ Goto("f1_default")
    /\ UNCHANGED <<input, frame, pr_auc, f1_default, k, thr_top20, f1_top20, output>>

\* thr = 0.5; f1_default = f1_score(m['late_delivery'], (m['p_late']>=thr).astype(int))
F1Default ==
    /\ pc = "f1_default"
    /\ f1_default' = F1Score(m, thr)
    /\ Goto("k")
    /\ UNCHANGED <<input, frame, pr_auc, roc_auc, k, thr_top20, f1_top20, output>>

\* k = max(1, int(0.2 * len(m)))
ComputeK ==
    /\ pc = "k"
    /\ k' = TopK(Len(m))
    /\ Goto("thr_top20")
    /\ UNCHANGED <<input, frame, pr_auc, roc_auc, f1_default, thr_top20, f1_top20, output>>

\* thr_top20 = m['p_late'].nlargest(k).min()
ComputeThrTop20 ==
    /\ pc = "thr_top20"
    /\ thr_top20' = ThrTop20(m, k)
    /\ Goto("f1_top20")
    /\ UNCHANGED <<input, frame, pr_auc, roc_auc, f1_default, k, f1_top20, output>>

\* f1_top20 = f1_score(m['late_delivery'], (m['p_late']>=thr_top20).astype(int))
F1Top20 ==
    /\ pc = "f1_top20"
    /\ f1_top20' = F1Score(m, thr_top20)
    /\ Goto("print_metrics")
    /\ UNCHANGED <<input, frame, pr_auc, roc_auc, f1_default, k, thr_top20, output>>

\* print({'PR_AUC': ..., 'ROC_AUC': ..., 'F1@0.5': ..., 'F1@top20%': ...})
PrintMetrics ==
    /\ pc = "print_metrics"
    /\ stdout' = Append(stdout, "metrics")
    /\ printed' = [printed EXCEPT !.PR_AUC = pr_auc, !.ROC_AUC = roc_auc,
                                  !.F1_default = f1_default, !.F1_top20 = f1_top20]
    /\ pc' = "done"
    /\ exit_code' = 0
    /\ UNCHANGED <<input, frame, metrics, err>>

Next ==
    \/ ParseArgs \/ ReadPO \/ ReadDeliv \/ LeftMerge \/ QueryCancelled
    \/ FillLateDelivery \/ ReadPred \/ AssertColumns \/ InnerMerge \/ PrintRows
    \/ PrAuc \/ RocAucStep \/ F1Default \/ ComputeK \/ ComputeThrTop20
    \/ F1Top20 \/ PrintMetrics

Spec == Init /\ [][Next]_vars

\* ------------------------------------------------------------- properties
Steps == <<"parse_args", "read_po", "read_deliv", "merge_left", "query", "fillna",
           "read_pred", "assert", "merge_inner", "print_rows", "pr_auc", "roc_auc",
           "f1_default", "k", "thr_top20", "f1_top20", "print_metrics", "done">>

Pos(label) == CHOOSE i \in 1..Len(Steps) : Steps[i] = label

\* the statement the run stands at: the one that raised, when it has failed
Here == IF pc = "failed" THEN err.at ELSE pc

\* the statement has run to its end
Completed(label) == Pos(Here) > Pos(label)

Failed == pc = "failed"

PoIdx == 1..Len(input.po_rows)
DelivIdx == 1..Len(input.labels_rows)
PredIdx == 1..Len(input.pred_rows)

\* the rows of the left join that pass cancelled == 0, as pairs of a purchase
\* order row and a delivery row of the same order_id (0: no delivery has it)
LabelRowSet ==
    {ab \in PoIdx \X (0..Len(input.labels_rows)) :
        /\ input.po_rows[ab[1]].cancelled = 0
        /\ IF ab[2] = 0
           THEN \A b \in DelivIdx :
                   input.labels_rows[b].order_id # input.po_rows[ab[1]].order_id
           ELSE input.labels_rows[ab[2]].order_id = input.po_rows[ab[1]].order_id}

MatchingPairs ==
    {x \in LabelRowSet \X PredIdx :
        input.pred_rows[x[2]].order_id = input.po_rows[x[1][1]].order_id}

\* C1: the integer printed as 'Merged rows' is the number of matching (label
\* row, prediction row) pairs on order_id, every pair counted, where the label
\* rows are the rows of the left join that pass cancelled == 0
C1_MergedRowsIsJoinCardinality ==
    Completed("print_rows") => printed.rows = Cardinality(MatchingPairs)

C1_Witness ==
    /\ Completed("print_rows")
    /\ printed.rows = 4
    /\ Len(input.po_rows) = 2 /\ Len(input.labels_rows) = 2 /\ Len(input.pred_rows) = 2
    /\ input.po_rows[1].order_id # input.po_rows[2].order_id

MRows == 1..Len(m)

\* the deliveries of an order carry no label
NoLabel(id) ==
    \A b \in DelivIdx :
        input.labels_rows[b].order_id = id => input.labels_rows[b].late_delivery = NULL

\* C2 as stated: every row of the merged table has a label that is 0 or 1 and
\* a defined p_late
C2_Original ==
    Completed("merge_inner") =>
        \A i \in MRows : m[i].late_delivery \in {0, 1} /\ m[i].p_late # NULL

\* C2 as amended: every row of the merged table has a label that is 0 or 1, 0
\* when the left join left it missing; a row whose p_late is null can be in
\* the merged table, and then the first metric raises: once PR-AUC has been
\* computed every row has a defined p_late
C2_LabelsDefinedScoresChecked ==
    Completed("merge_inner") =>
        /\ \A i \in MRows :
              /\ m[i].late_delivery \in {0, 1}
              /\ NoLabel(m[i].order_id) => m[i].late_delivery = 0
        /\ Completed("pr_auc") => \A i \in MRows : m[i].p_late # NULL
        /\ (\E i \in MRows : m[i].p_late = NULL) =>
              /\ pr_auc = NotComputed
              /\ Here \in {"print_rows", "pr_auc"}

C2_Witness ==
    /\ Completed("pr_auc")
    /\ \E i \in MRows : NoLabel(m[i].order_id) /\ input.labels_rows # <<>>
    /\ \E b \in DelivIdx : input.labels_rows[b].late_delivery = NULL

FlaggedCount == Cardinality({i \in MRows : m[i].p_late >= thr_top20})
AtThreshold == Cardinality({i \in MRows : m[i].p_late = thr_top20})
FloorFifth(n) == CHOOSE j \in 0..n : 5 * j <= n /\ n < 5 * (j + 1)

\* C3: with N >= 1 merged rows, k = max(1, floor(0.2 N)) and thr_top20 the
\* k-th largest p_late, at least k rows have p_late >= thr_top20, and exactly
\* k when no other row has the score of the k-th largest row
C3_TopKFlagsAtLeastK ==
    Completed("thr_top20") =>
        /\ Len(m) >= 1
        /\ k = Max(1, FloorFifth(Len(m)))
        /\ Cardinality({i \in MRows : m[i].p_late > thr_top20}) < k
        /\ FlaggedCount >= k
        /\ AtThreshold = 1 => FlaggedCount = k

C3_Witness ==
    /\ Completed("thr_top20")
    /\ k = 2 /\ FlaggedCount = 2 /\ AtThreshold = 1

NothingComputed ==
    /\ m = <<>>
    /\ pr_auc = NotComputed /\ roc_auc = NotComputed
    /\ f1_default = NotComputed /\ f1_top20 = NotComputed

\* C4: a predictions file without order_id or without p_late ends the run at
\* the assertion with a non-zero exit, before the merge and before any
\* metric, and neither output line is printed
C4_MissingColumnAborts ==
    (Completed("read_pred") /\ ~({"order_id", "p_late"} \subseteq input.pred_cols)) =>
        /\ Here = "assert"
        /\ Failed => err.type = "AssertionError" /\ exit_code \notin {0, NULL}
        /\ NothingComputed
        /\ stdout = <<>> /\ printed.rows = NULL

C4_Witness ==
    /\ Failed /\ err.at = "assert"
    /\ "order_id" \in input.pred_cols /\ "p_late" \notin input.pred_cols

NoMetricsLine ==
    /\ \A i \in 1..Len(stdout) : stdout[i] # "metrics"
    /\ printed.PR_AUC = NotComputed /\ printed.ROC_AUC = NotComputed
    /\ printed.F1_default = NotComputed /\ printed.F1_top20 = NotComputed
    /\ pc # "done"

\* C5: a merge that yields zero rows ends the run in a metric error with a
\* non-zero exit; the metrics line is never printed and no metric gets a value
C5_EmptyMergeIsFatal ==
    (Completed("merge_inner") /\ Len(m) = 0) =>
        /\ Here \in {"print_rows", "pr_auc"}
        /\ Failed => exit_code \notin {0, NULL}
        /\ pr_auc = NotComputed /\ roc_auc = NotComputed
        /\ f1_default = NotComputed /\ f1_top20 = NotComputed
        /\ NoMetricsLine

C5_Witness ==
    /\ Failed /\ err.at = "pr_auc" /\ Len(m) = 0
    /\ df # <<>> /\ pred # <<>>
    /\ stdout = <<"Merged rows">> /\ printed.rows = 0

\* C6 as stated: a run that ends in a fatal error has written nothing to
\* standard output
C6_Original == Failed => stdout = <<>>

\* C6 as amended: a run that fails before the merge (argument, file, parse or
\* schema error) has printed nothing; a run that fails in a metric has printed
\* the 'Merged rows' line and only it; the metrics line is printed only by a
\* run that succeeds, after the 'Merged rows' line
C6_OutputByFailurePoint ==
    /\ Failed =>
          /\ exit_code \notin {0, NULL}
          /\ stdout = IF Pos(err.at) > Pos("print_rows")
                      THEN <<"Merged rows">> ELSE <<>>
          /\ NoMetricsLine
    /\ pc = "done" => stdout = <<"Merged rows", "metrics">> /\ exit_code = 0
    /\ (~Failed /\ pc # "done") =>
          /\ stdout = IF Completed("print_rows") THEN <<"Merged rows">> ELSE <<>>
          /\ exit_code = NULL

C6_Witness ==
    /\ Failed /\ err.at = "roc_auc" /\ stdout = <<"Merged rows">> /\ printed.rows >= 1

DfRows == 1..Len(df)

\* C7 as stated: the filter removes the joined rows whose cancelled is 1 and
\* keeps those whose cancelled is 0 or null
C7_Original ==
    Completed("query") =>
        /\ \A i \in DfRows : df[i].cancelled # 1
        /\ \A a \in PoIdx :
              input.po_rows[a].cancelled # 1 =>
                 \E i \in DfRows : /\ df[i].order_id = input.po_rows[a].order_id
                                   /\ df[i].cancelled = input.po_rows[a].cancelled

\* C7 as amended: the filter keeps exactly the joined rows whose cancelled
\* equals 0; a row whose cancelled is 1 or null is removed, so neither an
\* order with cancelled == 1 nor one with a null cancelled is scored
C7_FilterKeepsCancelledZero ==
    Completed("query") =>
        /\ \A i \in DfRows : df[i].cancelled = 0
        /\ Len(df) = Cardinality(LabelRowSet)
        /\ \A a \in PoIdx :
              input.po_rows[a].cancelled = 0 =>
                 \E i \in DfRows : df[i].order_id = input.po_rows[a].order_id
        /\ Completed("merge_inner") => \A i \in MRows : m[i].cancelled = 0

C7_Witness ==
    /\ Completed("merge_inner")
    /\ Len(m) = 1
    /\ \E a \in PoIdx : input.po_rows[a].cancelled = NULL
                        /\ \E c \in PredIdx :
                              input.pred_rows[c].order_id = input.po_rows[a].order_id
    /\ \E a \in PoIdx : input.po_rows[a].cancelled = 0

UniqueOrders ==
    \A a, b \in PoIdx : input.po_rows[a].order_id = input.po_rows[b].order_id => a = b

RowsOf(id) == Cardinality({i \in DfRows : df[i].order_id = id})
DeliveriesOf(id) == Cardinality({b \in DelivIdx : input.labels_rows[b].order_id = id})

\* C8 as stated: with unique order_id in the purchase orders, the output of
\* the Joiner/Filter has exactly one row per purchase order with cancelled 0
C8_Original ==
    (Completed("fillna") /\ UniqueOrders) =>
        \A a \in PoIdx :
            input.po_rows[a].cancelled = 0 => RowsOf(input.po_rows[a].order_id) = 1

\* C8 as amended: with unique order_id in the purchase orders, the output of
\* the Joiner/Filter has, for each purchase order with cancelled 0, one row
\* per delivery row of that order_id and one row when there is none (so at
\* least one, and exactly one when at most one delivery row has that
\* order_id), and no row for any other purchase order
C8_RowsPerOrderFollowDeliveries ==
    (Completed("fillna") /\ UniqueOrders) =>
        \A a \in PoIdx :
            RowsOf(input.po_rows[a].order_id) =
                IF input.po_rows[a].cancelled = 0
                THEN Max(1, DeliveriesOf(input.po_rows[a].order_id)) ELSE 0

C8_Witness ==
    /\ Completed("fillna") /\ UniqueOrders
    /\ Len(input.po_rows) = 2 /\ Len(df) = 3

OneClass ==
    /\ Len(m) >= 1
    /\ \A i \in MRows : m[i].p_late # NULL
    /\ \/ \A i \in MRows : m[i].late_delivery = 0
       \/ \A i \in MRows : m[i].late_delivery = 1

\* C9 as stated: a non-empty merged table whose labels are all of one class
\* ends the run in a metric error, and the metrics line is not printed
C9_Original ==
    (Completed("merge_inner") /\ OneClass) =>
        /\ Here \in {"print_rows", "pr_auc", "roc_auc"}
        /\ NoMetricsLine

\* C9 as amended: with a non-empty merged table whose labels are all of one
\* class, PR-AUC is computed and ROC-AUC has no value: roc_auc_score either
\* raises (the run fails there, non-zero exit, no metrics line) or returns
\* NaN, and then the metrics line shows ROC_AUC as nan; no number is ever
\* printed for ROC_AUC
C9_OneClassRocAucUndefined ==
    (Completed("merge_inner") /\ OneClass) =>
        /\ Completed("pr_auc") => pr_auc # NotComputed /\ pr_auc # NaN
        /\ roc_auc \in {NotComputed, NaN}
        /\ Failed => /\ err.at = "roc_auc" /\ exit_code \notin {0, NULL}
                     /\ NoMetricsLine
        /\ pc = "done" => printed.ROC_AUC = NaN

C9_Witness ==
    /\ Failed /\ err.at = "roc_auc" /\ OneClass
    /\ \A i \in MRows : m[i].late_delivery = 0
    /\ \E b \in DelivIdx : input.labels_rows[b].late_delivery = NULL

\* the whole pipeline up to the merged table
Scored(p, d, pr) == MergeInner(FillLabel(Query(MergeLeft(p, d))), pr)

PredictedIds == {input.pred_rows[c].order_id : c \in PredIdx}
HasPrediction(r) == r.order_id \in PredictedIds

\* the run on the inputs without the orders that have no prediction
Reduced ==
    Scored(SelectSeq(input.po_rows, HasPrediction),
           SelectSeq(input.labels_rows, HasPrediction),
           ReadPredRows(input.pred_rows, input.pred_cols))

\* C10: purchase orders (and their deliveries) whose order_id matches no
\* prediction change nothing: the merged table, the printed 'Merged rows',
\* k, thr_top20 and the four metrics are those of the run without them
C10_UnpredictedOrdersIgnored ==
    Completed("merge_inner") =>
        LET r == Reduced
            kr == TopK(Len(r))
            tr == ThrTop20(r, kr)
        IN /\ m = r
           /\ Completed("print_rows") => printed.rows = Len(r)
           /\ Completed("pr_auc") => pr_auc = AveragePrecision(r)
           /\ (Completed("roc_auc") /\ ~Failed) => roc_auc = RocAuc(r)
           /\ Completed("f1_default") => f1_default = F1Score(r, thr)
           /\ Completed("k") => k = kr
           /\ Completed("thr_top20") => thr_top20 = tr
           /\ Completed("f1_top20") => f1_top20 = F1Score(r, tr)
           /\ pc = "done" => /\ printed.PR_AUC = AveragePrecision(r)
                             /\ printed.ROC_AUC = RocAuc(r)
                             /\ printed.F1_default = F1Score(r, thr)
                             /\ printed.F1_top20 = F1Score(r, tr)
           /\ Failed => \/ err.at = "pr_auc" /\ AveragePrecisionRaises(r)
                        \/ err.at = "roc_auc" /\ RocAucUndefined(r)
           /\ Completed("pr_auc") => ~AveragePrecisionRaises(r)

C10_Witness ==
    /\ pc = "done"
    /\ \E a \in PoIdx : /\ input.po_rows[a].order_id \notin PredictedIds
                        /\ input.po_rows[a].cancelled = 0
    /\ \E b \in DelivIdx : input.labels_rows[b].order_id \notin PredictedIds
    /\ Len(m) >= 2

====
